---- MODULE Spec2Model ----
(***************************************************************************)
(* A model of src/src/main.rs: a minimal container runner.                 *)
(*                                                                         *)
(*   main -> run_child: tempdir, copy_command, create_dev_null,            *)
(*           pull_image (the call only), chroot, set_current_dir, unshare, *)
(*           spawn, wait, drop of the TempDir, exit.                       *)
(*   pull_image: the body of the async function, as it runs when its       *)
(*           future is driven to completion (specification PullSpec).      *)
(*                                                                         *)
(* Path strings are sequences of tokens: "/" is the separator token and    *)
(* every other token is one whole file name ("..", ".", "bin", ...).       *)
(* Image references are sequences of characters.  A resolved path is the   *)
(* sequence of the names from the host's root directory.                   *)
(***************************************************************************)
EXTENDS Integers, Sequences, FiniteSets, TLC

VARIABLES
    command,      \* args[3]: the command path, a token sequence
    image,        \* args[2]: the image reference, a character sequence
    privileged,   \* the process runs with root's capabilities
    networkUp,    \* the registry hosts can be reached
    pc,           \* position in main / run_child
    fs,           \* the host's file system: resolved path -> node
    procRoot,     \* the process's root directory (changed by chroot)
    cwd,          \* the process's working directory
    temp_dir,     \* the TempDir's path, NoPath before tempdir()
    future,       \* the future returned by the call pull_image(..)
    child,        \* the spawned child
    nsIsolated,   \* outcome of libc::unshare
    result,       \* what run_child returned
    exitCode,     \* the exit code of the process, -1 while it runs
    steps,        \* the steps the invocation has performed, in order
    pullPc,       \* position inside the body of pull_image
    pullName,     \* image_tag[0]
    pullTag,      \* image_tag[1]
    access_token, \* the token parsed from the token endpoint's answer
    manifest,     \* manifest.layers: the digests, in the manifest's order
    layerIdx,     \* the index of the layer the for loop is at
    tmpFile,      \* the handle on tmp.tar.gz and the bytes written to it
    requests,     \* every request sent, with the answer it got, in order
    extracted,    \* the digests whose archive was unpacked, in order
    pullResult    \* what pull_image returned

envVars   == <<command, image, privileged, networkUp>>
procVars  == <<pc, procRoot, cwd, temp_dir, future, child, nsIsolated,
               result, exitCode, steps>>
pullVars  == <<pullPc, pullName, pullTag, access_token, manifest, layerIdx,
               tmpFile, requests, extracted, pullResult>>
vars      == <<envVars, procVars, pullVars, fs>>

(***************************************************************************)
(* Bounds of the model.                                                    *)
(***************************************************************************)
MaxExitCode == 2   \* the child exits with a code in 0..MaxExitCode
MaxLayers   == 2   \* a manifest lists at most MaxLayers layers
MaxRefLen   == 5   \* an image reference has at most MaxRefLen characters

(***************************************************************************)
(* Paths.                                                                  *)
(***************************************************************************)
NoPath   == <<"?">>   \* the walk met a name that does not exist (ENOENT)
NotDir   == <<"!">>   \* the walk had to go through a regular file (ENOTDIR)
NoAccess == <<"#">>   \* the walk met a directory it may not search (EACCES)

Octal(u, g, o) == u * 64 + g * 8 + o

\* str::trim_start_matches("/")
RECURSIVE trim_start_matches(_)
trim_start_matches(toks) ==
    IF toks # <<>> /\ Head(toks) = "/"
    THEN trim_start_matches(Tail(toks))
    ELSE toks

IsAbsolute(toks) == toks # <<>> /\ Head(toks) = "/"

Front(s) == SubSeq(s, 1, Len(s) - 1)
Last(s)  == s[Len(s)]

\* Path::components of a path joined to a directory: the names of the path
\* string; separators and "." name nothing.
Components(toks) == SelectSeq(toks, LAMBDA t : t # "/" /\ t # ".")

\* Path::parent of a path given by its steps: the components without the
\* last one.
parent(comps) == Front(Components(comps))

\* The steps of the kernel's walk along a path string: its names, "."
\* among them; a separator after the last name is a last step "/", which
\* asks for a directory.
Names(toks) ==
    LET names == SelectSeq(toks, LAMBDA t : t # "/")
    IN  IF names # <<>> /\ Last(toks) = "/" THEN Append(names, "/")
        ELSE names

\* The steps end in a separator.
TrailingSlash(comps) == comps # <<>> /\ Last(comps) = "/"

\* The steps without the separator at the end: the path whose last name a
\* call creates or removes.
Base(comps) == IF TrailingSlash(comps) THEN Front(comps) ELSE comps

Exists(fsys, p) == p \in DOMAIN fsys
IsDir(fsys, p)  == Exists(fsys, p) /\ fsys[p].kind = "dir"
IsFile(fsys, p) == Exists(fsys, p) /\ fsys[p].kind = "file"

\* Permissions.  A process is root (every check passes) or the user; a
\* file is owned by root or by the user, and neither is in the other's
\* group, so the owner's bits or the others' bits decide.
Uid(priv) == IF priv THEN "root" ELSE "user"
HasBit(mode, b) == (mode \div b) % 2 = 1
OwnerWrite(mode) == HasBit(mode, 128)
GroupWrite(mode) == HasBit(mode, 16)
OtherWrite(mode) == HasBit(mode, 2)

\* bit is 4 (read), 2 (write) or 1 (execute, search).
Allowed(fsys, p, priv, bit) ==
    \/ priv
    \/ fsys[p].owner = Uid(priv) /\ HasBit(fsys[p].mode, 64 * bit)
    \/ fsys[p].owner # Uid(priv) /\ HasBit(fsys[p].mode, bit)

CanRead(fsys, p, priv)   == Allowed(fsys, p, priv, 4)
CanSearch(fsys, p, priv) == Allowed(fsys, p, priv, 1)

\* Permission to write to file p, or to add and remove entries of
\* directory p, which takes write and search permission.
CanWrite(fsys, p, priv) ==
    /\ Allowed(fsys, p, priv, 2)
    /\ IsDir(fsys, p) => Allowed(fsys, p, priv, 1)

\* Permission to execute file p: root needs one execute bit to be set.
CanExec(fsys, p, priv) ==
    IF priv
    THEN HasBit(fsys[p].mode, 64) \/ HasBit(fsys[p].mode, 8)
             \/ HasBit(fsys[p].mode, 1)
    ELSE Allowed(fsys, p, priv, 1)

\* The kernel's walk from directory cur along comps.  ".." at the process's
\* root stays there, "." stays where it is, and the step "/" only asks
\* for a directory.  NotDir when a name on the way is a regular file,
\* NoPath when it does not exist, NoAccess when the process may not search
\* it; the last name need not exist.
RECURSIVE Walk(_, _, _, _, _)
Walk(fsys, root, cur, comps, priv) ==
    IF comps = <<>> THEN cur
    ELSE IF IsFile(fsys, cur) THEN NotDir
    ELSE IF ~IsDir(fsys, cur) THEN NoPath
    ELSE IF Head(comps) = "/" THEN Walk(fsys, root, cur, Tail(comps), priv)
    ELSE IF ~CanSearch(fsys, cur, priv) THEN NoAccess
    ELSE LET c    == Head(comps)
             next == IF c = ".."
                     THEN (IF cur = root THEN cur ELSE Front(cur))
                     ELSE IF c = "." THEN cur
                     ELSE Append(cur, c)
         IN  Walk(fsys, root, next, Tail(comps), priv)

\* The error of a walk, "ok" when it ended at a path.
WalkError(p) ==
    IF p = NotDir THEN "ENOTDIR"
    ELSE IF p = NoAccess THEN "EACCES"
    ELSE IF p = NoPath THEN "ENOENT"
    ELSE "ok"

\* The file a path string names for a process with this root and directory;
\* the empty string names nothing.
Lookup(fsys, root, dir, toks, priv) ==
    IF toks = <<>> THEN NoPath
    ELSE Walk(fsys, root, IF IsAbsolute(toks) THEN root ELSE dir,
              Names(toks), priv)

IsPrefix(p, q) == Len(p) <= Len(q) /\ SubSeq(q, 1, Len(p)) = p
StrictlyInside(p, dir) == IsPrefix(dir, p) /\ p # dir

\* What a file holds: where the bytes come from (a host file, a blob, a layer).
Data(src, n) == [src |-> src, n |-> n]
NoData == Data("", 0)

Node(kind, mode, owner, content) ==
    [kind |-> kind, mode |-> mode, owner |-> owner, content |-> content]

Put(fsys, p, node) == [q \in (DOMAIN fsys) \cup {p} |-> IF q = p THEN node ELSE fsys[q]]

(***************************************************************************)
(* The host: its file system, the working directory the program is started *)
(* in, and the directory tempfile::tempdir() creates.                      *)
(***************************************************************************)
HostCwd  == <<"app">>
TempPath == <<"tmp", "T">>

HostFs ==
    (<<>>                    :> Node("dir",  Octal(7,5,5), "root", NoData)) @@
    (<<"bin">>               :> Node("dir",  Octal(7,5,5), "root", NoData)) @@
    (<<"bin", "true">>       :> Node("file", Octal(7,5,5), "root", Data("host:/bin/true", 0))) @@
    (<<"tmp">>               :> Node("dir",  Octal(7,7,7), "root", NoData)) @@
    (<<"app">>               :> Node("dir",  Octal(7,5,5), "user", NoData)) @@
    (<<"app", "run">>        :> Node("file", Octal(7,5,5), "user", Data("host:/app/run", 0))) @@
    (<<"app", "dev">>        :> Node("dir",  Octal(7,5,5), "user", NoData)) @@
    (<<"app", "dev", "tool">> :> Node("file", Octal(7,5,5), "user", Data("host:/app/dev/tool", 0)))

Commands ==
    { <<"/", "bin", "/", "true">>,              \* /bin/true
      <<"/", "/", "bin", "/", "true">>,         \* //bin/true
      <<"bin", "/", "true">>,                   \* bin/true  (not in /app)
      <<"run">>,                                \* run
      <<".", "/", "run">>,                      \* ./run
      <<"dev", "/", "tool">>,                   \* dev/tool
      <<"..", "/", "bin", "/", "true">>,        \* ../bin/true
      <<"/", "..", "/", "bin", "/", "true">>,   \* /../bin/true
      <<"/", "nope">>,                          \* /nope     (does not exist)
      <<"/", "bin">>,                           \* /bin      (a directory)
      <<"/">> }                                 \* /

(***************************************************************************)
(* File system calls.  Each returns [err, fs]: err is "ok" or an error.    *)
(***************************************************************************)
Ret(err, fsys) == [err |-> err, fs |-> fsys]

\* std::fs::create_dir: mkdir(2), mode 0o777 under the umask 0o022.
create_dir(fsys, root, comps, priv) ==
    LET target == Walk(fsys, root, root, Base(comps), priv)
    IN  IF WalkError(target) # "ok" THEN Ret(WalkError(target), fsys)
        ELSE IF Exists(fsys, target) THEN Ret("EEXIST", fsys)
        ELSE IF ~CanWrite(fsys, Front(target), priv) THEN Ret("EACCES", fsys)
        ELSE Ret("ok", Put(fsys, target,
                           Node("dir", Octal(7,5,5), Uid(priv), NoData)))

\* Path::is_dir
is_dir(fsys, root, comps, priv) ==
    IsDir(fsys, Walk(fsys, root, root, comps, priv))

\* std::fs::create_dir_all: mkdir; on NotFound create the parent
\* (Path::parent) and mkdir again; any other error is no error when the
\* path is a directory.
RECURSIVE create_dir_all(_, _, _, _)
create_dir_all(fsys, root, comps, priv) ==
    LET first == create_dir(fsys, root, comps, priv)
    IN  IF first.err = "ok" THEN first
        ELSE IF first.err # "ENOENT"
        THEN (IF is_dir(fsys, root, comps, priv) THEN Ret("ok", fsys)
              ELSE first)
        ELSE IF Components(comps) = <<>> THEN first
        ELSE LET up == create_dir_all(fsys, root, parent(comps), priv)
             IN  IF up.err # "ok" THEN up
                 ELSE LET again == create_dir(up.fs, root, comps, priv)
                      IN  IF again.err = "ok" THEN again
                          ELSE IF is_dir(up.fs, root, comps, priv)
                          THEN Ret("ok", up.fs)
                          ELSE again

\* std::fs::copy(from, to): the source is opened for reading and must be a
\* regular file; the destination is opened write-only with create and
\* truncate (a path that ends in a separator is refused) and then given the source's permission bits (fchmod) and
\* content.  A destination that exists keeps its owner; a process that may
\* write to it but does not own it fails at the fchmod, after the
\* truncation.
copy(fsys, root, dir, fromToks, toComps, priv) ==
    LET src == Lookup(fsys, root, dir, fromToks, priv)
        dst == Walk(fsys, root, root, Base(toComps), priv)
    IN  IF WalkError(src) # "ok" THEN Ret(WalkError(src), fsys)
        ELSE IF ~Exists(fsys, src) THEN Ret("ENOENT", fsys)
        ELSE IF ~CanRead(fsys, src, priv) THEN Ret("EACCES", fsys)
        ELSE IF ~IsFile(fsys, src) THEN Ret("EINVAL", fsys)
        ELSE IF WalkError(dst) # "ok" THEN Ret(WalkError(dst), fsys)
        ELSE IF TrailingSlash(toComps) \/ IsDir(fsys, dst)
        THEN Ret("EISDIR", fsys)
        ELSE IF ~Exists(fsys, dst)
        THEN (IF ~CanWrite(fsys, Front(dst), priv) THEN Ret("EACCES", fsys)
              ELSE Ret("ok", Put(fsys, dst,
                                 Node("file", fsys[src].mode, Uid(priv),
                                      fsys[src].content))))
        ELSE IF ~CanWrite(fsys, dst, priv) THEN Ret("EACCES", fsys)
        ELSE IF ~priv /\ fsys[dst].owner # Uid(priv)
        THEN Ret("EPERM", Put(fsys, dst, [fsys[dst] EXCEPT !.content = NoData]))
        ELSE Ret("ok", Put(fsys, dst,
                           [fsys[dst] EXCEPT
                               !.mode = fsys[src].mode,
                               !.content = IF src = dst THEN NoData
                                           ELSE fsys[src].content]))

\* std::fs::set_permissions(path, Permissions::from_mode(mode)): chmod(2).
set_permissions(fsys, root, comps, mode, priv) ==
    LET p == Walk(fsys, root, root, comps, priv)
    IN  IF WalkError(p) # "ok" THEN Ret(WalkError(p), fsys)
        ELSE IF ~Exists(fsys, p) THEN Ret("ENOENT", fsys)
        ELSE IF ~priv /\ fsys[p].owner # Uid(priv) THEN Ret("EPERM", fsys)
        ELSE Ret("ok", Put(fsys, p, [fsys[p] EXCEPT !.mode = mode]))

\* std::fs::File::create(path): open(2) write-only, create, truncate, mode
\* 0o666 under the umask 0o022.  start is the directory the path is
\* relative to (the root for an absolute path).
File_create(fsys, root, start, comps, priv) ==
    LET p == Walk(fsys, root, start, Base(comps), priv)
    IN  IF WalkError(p) # "ok" THEN Ret(WalkError(p), fsys)
        ELSE IF TrailingSlash(comps) \/ IsDir(fsys, p) THEN Ret("EISDIR", fsys)
        ELSE IF ~Exists(fsys, p)
        THEN (IF ~CanWrite(fsys, Front(p), priv) THEN Ret("EACCES", fsys)
              ELSE Ret("ok", Put(fsys, p,
                                 Node("file", Octal(6,4,4), Uid(priv), NoData))))
        ELSE IF ~CanWrite(fsys, p, priv) THEN Ret("EACCES", fsys)
        ELSE Ret("ok", Put(fsys, p, [fsys[p] EXCEPT !.content = NoData]))

\* The file system without the entry p.
Del(fsys, p) == [q \in (DOMAIN fsys) \ {p} |-> fsys[q]]

\* The entries of directory p.
Entries(fsys, p) == {q \in DOMAIN fsys : q # <<>> /\ Front(q) = p}

\* The removal of what is below directory p, and of the entry p.  A
\* directory is opened and read, its entries are removed in the order
\* readdir lists them, which is any order, each with all below it, and then
\* the directory itself; the first entry that cannot be removed ends the
\* removal with what was removed so far.  An entry can be reached only
\* through a directory the process may search, and removed only from one it
\* may also write to.  The outcomes of every order.
RECURSIVE RemoveContents(_, _, _)
RECURSIVE RemoveTree(_, _, _)
RemoveContents(fsys, p, priv) ==
    LET kids == Entries(fsys, p)
    IN  IF ~CanRead(fsys, p, priv) THEN {Ret("EACCES", fsys)}
        ELSE IF kids = {} THEN {Ret("ok", fsys)}
        ELSE IF ~CanSearch(fsys, p, priv) THEN {Ret("EACCES", fsys)}
        ELSE UNION { UNION { IF r.err = "ok"
                             THEN RemoveContents(r.fs, p, priv)
                             ELSE {r} :
                             r \in RemoveTree(fsys, k, priv) } :
                     k \in kids }

RemoveTree(fsys, p, priv) ==
    IF IsFile(fsys, p)
    THEN (IF ~CanWrite(fsys, Front(p), priv) THEN {Ret("EACCES", fsys)}
          ELSE {Ret("ok", Del(fsys, p))})
    ELSE { IF r.err # "ok" THEN r
           ELSE IF ~CanWrite(r.fs, Front(p), priv) THEN Ret("EACCES", r.fs)
           ELSE Ret("ok", Del(r.fs, p)) :
           r \in RemoveContents(fsys, p, priv) }

\* std::fs::remove_dir_all(path): what is below the directory the path
\* names for the calling process is removed, and then the directory by its
\* path (rmdir): the root of the process is busy, a path that ends in "."
\* is invalid, one that ends in ".." names a directory that is not empty
\* or, when its last name went with the contents, nothing any more, which
\* is no error.  A path that names a regular file is an error.  The set of
\* the possible outcomes.
remove_dir_all(fsys, root, comps, priv) ==
    LET p     == Walk(fsys, root, root, comps, priv)
        names == Base(comps)
        rmdir(f) ==
            IF names = <<>> THEN Ret("EBUSY", f)
            ELSE IF Last(names) = "." THEN Ret("EINVAL", f)
            ELSE IF Last(names) = ".."
            THEN (IF IsDir(f, Walk(f, root, root, comps, priv))
                  THEN Ret("ENOTEMPTY", f)
                  ELSE Ret("ok", f))
            ELSE IF ~CanWrite(f, Front(p), priv) THEN Ret("EACCES", f)
            ELSE Ret("ok", Del(f, p))
    IN  IF WalkError(p) # "ok" THEN {Ret(WalkError(p), fsys)}
        ELSE IF IsFile(fsys, p) THEN {Ret("ENOTDIR", fsys)}
        ELSE IF ~Exists(fsys, p) THEN {Ret("ENOENT", fsys)}
        ELSE { IF r.err # "ok" THEN r ELSE rmdir(r.fs) :
               r \in RemoveContents(fsys, p, priv) }

(***************************************************************************)
(* copy_command and create_dev_null (main.rs 62-85).                       *)
(***************************************************************************)
\* temp_dir.path().join(command.trim_start_matches("/")): the steps of the
\* walk along the joined path.
target_command(tmp, cmd) == tmp \o Names(trim_start_matches(cmd))

\* target_command.parent(): the components of the joined path without the
\* last one.
target_path(tmp, cmd) == Front(tmp \o Components(trim_start_matches(cmd)))

\* The result of copy dropped: a failed copy is no error.
copy_command_unchecked(fsys, root, dir, cmd, tmp, priv) ==
    LET made == create_dir_all(fsys, root, target_path(tmp, cmd), priv)
    IN  IF made.err # "ok" THEN made
        ELSE Ret("ok", copy(made.fs, root, dir, cmd,
                            target_command(tmp, cmd), priv).fs)

copy_command(fsys, root, dir, cmd, tmp, priv) ==
    LET made == create_dir_all(fsys, root, target_path(tmp, cmd), priv)
    IN  IF made.err # "ok" THEN made
        ELSE copy(made.fs, root, dir, cmd, target_command(tmp, cmd), priv)

\* Permissions::from_mode(0o755): the owner may write.
DevMode_owner_writable == Octal(7,5,5)

DevMode == Octal(5,5,5)

create_dev_null(fsys, root, tmp, priv) ==
    LET dev   == tmp \o <<"dev">>
        null  == tmp \o <<"dev", "null">>
        s1    == create_dir(fsys, root, dev, priv)
        s2    == set_permissions(s1.fs, root, dev, DevMode, priv)
        s3    == File_create(s2.fs, root, root, null, priv)
        s4    == set_permissions(s3.fs, root, null, DevMode, priv)
    IN  IF s1.err # "ok" THEN s1
        ELSE IF s2.err # "ok" THEN s2
        ELSE IF s3.err # "ok" THEN s3
        ELSE s4

(***************************************************************************)
(* Isolation and the child (main.rs 40-59).                                *)
(***************************************************************************)
\* The mode of the directory tempfile::tempdir() creates: DirBuilder's
\* 0o777 under the umask 0o022.
TempDirMode == Octal(7,5,5)

\* PATH of the environment the program is started in.
PathEnv == << <<"/", "bin">> >>

\* A regular file the process may execute.
Executable(fsys, p, priv) == IsFile(fsys, p) /\ CanExec(fsys, p, priv)

\* The file Command::new(command).spawn() executes: a command with a "/" is
\* a path; a bare name is searched for in the directories of PATH.
spawn_target(fsys, root, dir, cmd, priv) ==
    IF \E i \in 1..Len(cmd) : cmd[i] = "/"
    THEN Lookup(fsys, root, dir, cmd, priv)
    ELSE LET hits == {i \in 1..Len(PathEnv) :
                        Executable(fsys,
                                   Lookup(fsys, root, dir,
                                          PathEnv[i] \o <<"/">> \o cmd, priv),
                                   priv)}
         IN  IF hits = {} THEN NoPath
             ELSE Lookup(fsys, root, dir,
                         PathEnv[CHOOSE i \in hits : \A j \in hits : i <= j]
                             \o <<"/">> \o cmd, priv)

\* unwrap_or(0) in place of unwrap_or(1).
exit_status_code_or_0(status) ==
    IF status.state = "exited" THEN status.code ELSE 0

\* child.wait()?.code().unwrap_or(1)
exit_status_code(status) ==
    IF status.state = "exited" THEN status.code ELSE 1

\* std::process::exit(code): the low eight bits reach the parent.
process_exit(code) == code % 256

NoChild   == [state |-> "none", code |-> 0, file |-> NoPath]
NoResult  == [kind |-> "none", code |-> 0, at |-> ""]
Ok(code)  == [kind |-> "ok", code |-> code, at |-> ""]
Err(step) == [kind |-> "err", code |-> 0, at |-> step]

(***************************************************************************)
(* The initial state: the arguments and the environment are chosen.        *)
(***************************************************************************)
Chars == {"a", "b", ":"}

RECURSIVE SeqsUpTo(_, _)
SeqsUpTo(S, n) ==
    IF n = 0 THEN {<<>>}
    ELSE LET shorter == SeqsUpTo(S, n - 1)
         IN  shorter \cup {Append(r, c) : r \in shorter, c \in S}

ImageRefs == SeqsUpTo(Chars, MaxRefLen)

\* The image arguments of the whole program: name:tag and a word.
ProgramImages == { <<"a", ":", "b">>, <<"s", "k", "i", "p">> }

\* No file is open.
NoHandle == [open |-> FALSE, readable |-> FALSE, atEnd |-> FALSE, data |-> 0]

PullIdle ==
    /\ pullPc = "unpolled"
    /\ pullName = <<>>
    /\ pullTag = <<>>
    /\ access_token = ""
    /\ manifest = <<>>
    /\ layerIdx = 0
    /\ tmpFile = NoHandle
    /\ requests = <<>>
    /\ extracted = <<>>
    /\ pullResult = NoResult

Init ==
    /\ command \in Commands
    /\ image \in ProgramImages
    /\ privileged \in BOOLEAN
    /\ networkUp \in BOOLEAN
    /\ pc = "tempdir"
    /\ fs = HostFs
    /\ procRoot = <<>>
    /\ cwd = HostCwd
    /\ temp_dir = NoPath
    /\ future = "none"
    /\ child = NoChild
    /\ nsIsolated = "none"
    /\ result = NoResult
    /\ exitCode = -1
    /\ steps = <<>>
    /\ PullIdle

(***************************************************************************)
(* run_child (main.rs 32-60), one action per statement.  A statement that  *)
(* fails makes run_child return the error: the TempDir, once created, is   *)
(* dropped on the way out.                                                 *)
(***************************************************************************)
Fail(step) ==
    /\ result' = Err(step)
    /\ pc' = IF step = "tempdir" THEN "main" ELSE "drop"

\* let temp_dir = tempfile::tempdir()?;
rc_tempdir ==
    /\ pc = "tempdir"
    /\ \E ok \in BOOLEAN :
         IF ok /\ CanWrite(fs, Front(TempPath), privileged)
         THEN /\ fs' = Put(fs, TempPath,
                           Node("dir", TempDirMode, Uid(privileged), NoData))
              /\ temp_dir' = TempPath
              /\ steps' = Append(steps, "root_created")
              /\ pc' = "copy_command"
              /\ UNCHANGED result
         ELSE /\ Fail("tempdir")
              /\ UNCHANGED <<fs, temp_dir, steps>>
    /\ UNCHANGED <<envVars, pullVars, procRoot, cwd, future, child,
                   nsIsolated, exitCode>>

\* copy_command(command, &temp_dir)?;
rc_copy_command ==
    /\ pc = "copy_command"
    /\ LET r == copy_command(fs, procRoot, cwd, command, temp_dir, privileged)
       IN  /\ fs' = r.fs
           /\ IF r.err = "ok"
              THEN /\ steps' = Append(steps, "command_staged")
                   /\ pc' = "create_dev_null"
                   /\ UNCHANGED result
              ELSE /\ Fail("copy_command")
                   /\ UNCHANGED steps
    /\ UNCHANGED <<envVars, pullVars, procRoot, cwd, temp_dir, future, child,
                   nsIsolated, exitCode>>

\* create_dev_null(&temp_dir)?;
rc_create_dev_null ==
    /\ pc = "create_dev_null"
    /\ LET r == create_dev_null(fs, procRoot, temp_dir, privileged)
       IN  /\ fs' = r.fs
           /\ IF r.err = "ok"
              THEN /\ steps' = Append(steps, "device_created")
                   /\ pc' = "pull_image"
                   /\ UNCHANGED result
              ELSE /\ Fail("create_dev_null")
                   /\ UNCHANGED steps
    /\ UNCHANGED <<envVars, pullVars, procRoot, cwd, temp_dir, future, child,
                   nsIsolated, exitCode>>

\* pull_image as a plain fn that splits the reference and indexes the
\* pieces before it returns its future: the index panic of a reference
\* without a colon then ends the process (exit code 101) at the call.
rc_pull_image_eager_split ==
    /\ pc = "pull_image"
    /\ future' = "dropped"
    /\ IF \E i \in 1..Len(image) : image[i] = ":"
       THEN /\ pc' = "chroot"
            /\ UNCHANGED <<pullResult, pullPc, exitCode>>
       ELSE /\ pullResult' = [kind |-> "panic", code |-> 0, at |-> "split"]
            /\ pullPc' = "done"
            /\ pc' = "exited"
            /\ exitCode' = 101
    /\ UNCHANGED <<envVars, fs, procRoot, cwd, temp_dir, child, nsIsolated,
                   result, steps, pullName, pullTag, access_token, manifest,
                   layerIdx, tmpFile, requests, extracted>>

\* pull_image(image, &..);   The call of an async fn builds a future and
\* runs nothing of its body; the statement neither awaits the future nor
\* hands it to an executor, and drops it at the semicolon.
rc_pull_image ==
    /\ pc = "pull_image"
    /\ future' = "dropped"
    /\ pc' = "chroot"
    /\ UNCHANGED <<envVars, pullVars, fs, procRoot, cwd, temp_dir, child,
                   nsIsolated, result, exitCode, steps>>

\* chroot(temp_dir.path())?;
rc_chroot ==
    /\ pc = "chroot"
    /\ \E ok \in BOOLEAN :
         IF ok /\ privileged /\ is_dir(fs, procRoot, temp_dir, privileged)
         THEN /\ procRoot' = Walk(fs, procRoot, procRoot, temp_dir,
                                  privileged)
              /\ steps' = Append(steps, "root_entered")
              /\ pc' = "set_current_dir"
              /\ UNCHANGED result
         ELSE /\ Fail("chroot")
              /\ UNCHANGED <<procRoot, steps>>
    /\ UNCHANGED <<envVars, pullVars, fs, cwd, temp_dir, future, child,
                   nsIsolated, exitCode>>

\* set_current_dir("/")?;
rc_set_current_dir ==
    /\ pc = "set_current_dir"
    /\ \E ok \in BOOLEAN :
         IF ok /\ IsDir(fs, procRoot)
         THEN /\ cwd' = Lookup(fs, procRoot, cwd, <<"/">>, privileged)
              /\ steps' = Append(steps, "cwd_set")
              /\ pc' = "unshare"
              /\ UNCHANGED result
         ELSE /\ Fail("set_current_dir")
              /\ UNCHANGED <<cwd, steps>>
    /\ UNCHANGED <<envVars, pullVars, fs, procRoot, temp_dir, future, child,
                   nsIsolated, exitCode>>

\* The return value of unshare looked at: a failure returns an error.
rc_unshare_checked ==
    /\ pc = "unshare"
    /\ \E ok \in BOOLEAN :
         IF ok /\ privileged
         THEN /\ nsIsolated' = "isolated"
              /\ pc' = "spawn"
              /\ UNCHANGED result
         ELSE /\ nsIsolated' = "failed"
              /\ Fail("unshare")
    /\ steps' = Append(steps, "unshare_attempted")
    /\ UNCHANGED <<envVars, pullVars, fs, procRoot, cwd, temp_dir, future,
                   child, exitCode>>

\* unsafe { libc::unshare(libc::CLONE_NEWPID); }   The return value is
\* not looked at.
rc_unshare ==
    /\ pc = "unshare"
    /\ \E ok \in BOOLEAN :
         nsIsolated' = IF ok /\ privileged THEN "isolated" ELSE "failed"
    /\ steps' = Append(steps, "unshare_attempted")
    /\ pc' = "spawn"
    /\ UNCHANGED <<envVars, pullVars, fs, procRoot, cwd, temp_dir, future,
                   child, result, exitCode>>

\* Command::new(command).args(..).stdin(Stdio::null()).spawn().with_context(..)?
\* as the statement at position at of run_child.
Spawn(at) ==
    /\ pc = at
    /\ LET file == spawn_target(fs, procRoot, cwd, command, privileged)
       IN  \E ok \in BOOLEAN :
             IF ok /\ Executable(fs, file, privileged)
             THEN /\ child' = [state |-> "running", code |-> 0, file |-> file]
                  /\ steps' = Append(steps, "child_spawned")
                  /\ pc' = "wait"
                  /\ UNCHANGED result
             ELSE /\ Fail("spawn")
                  /\ UNCHANGED <<child, steps>>
    /\ UNCHANGED <<envVars, pullVars, fs, procRoot, cwd, temp_dir, future,
                   nsIsolated, exitCode>>

\* The spawn moved up, before the chroot.
rc_spawn_before_chroot == Spawn("chroot")

rc_spawn == Spawn("spawn")

\* Ok(child.wait()?.code().unwrap_or(1))   wait() fails when the child's
\* status cannot be collected (ECHILD: the program was started with SIGCHLD
\* ignored, and the kernel reaps the child): the child has run and ended,
\* and the ? returns the error.
rc_wait ==
    /\ pc = "wait"
    /\ \E st \in [state : {"exited"}, code : 0..MaxExitCode]
                 \cup [state : {"signaled"}, code : {0}] :
         /\ child' = [child EXCEPT !.state = st.state, !.code = st.code]
         /\ \E ok \in BOOLEAN :
                result' = IF ok THEN Ok(exit_status_code(st)) ELSE Err("wait")
    /\ steps' = Append(steps, "child_exited")
    /\ pc' = "drop"
    /\ UNCHANGED <<envVars, pullVars, fs, procRoot, cwd, temp_dir, future,
                   nsIsolated, exitCode>>

\* run_child returns: temp_dir goes out of scope and TempDir::drop calls
\* remove_dir_all(path) on the path tempdir() returned, whose error it
\* ignores.
rc_drop ==
    /\ pc = "drop"
    /\ \E r \in remove_dir_all(fs, procRoot, temp_dir, privileged) : fs' = r.fs
    /\ pc' = "main"
    /\ UNCHANGED <<envVars, pullVars, procRoot, cwd, temp_dir, future, child,
                   nsIsolated, result, exitCode, steps>>

\* main (15-23): let exit_code = run_child(..)?; exit(exit_code);
\* An Err returned from main ends the process with exit code 1.
main_exit ==
    /\ pc = "main"
    /\ exitCode' = IF result.kind = "ok" THEN process_exit(result.code) ELSE 1
    /\ pc' = "exited"
    /\ UNCHANGED <<envVars, pullVars, fs, procRoot, cwd, temp_dir, future,
                   child, nsIsolated, result, steps>>

Next ==
    \/ rc_tempdir
    \/ rc_copy_command
    \/ rc_create_dev_null
    \/ rc_pull_image
    \/ rc_chroot
    \/ rc_set_current_dir
    \/ rc_unshare
    \/ rc_spawn
    \/ rc_wait
    \/ rc_drop
    \/ main_exit

Spec == Init /\ [][Next]_vars

(***************************************************************************)
(* The registry, as pull_image sees it: every request gets an answer.      *)
(* send() fails only when no HTTP answer arrives; an answer of any status  *)
(* is a Response.                                                          *)
(***************************************************************************)
Digests == 1..MaxLayers

\* The entries a layer's archive may hold: a regular file, its path
\* relative to the target directory and the mode the archive records.
LayerEntries ==
    { [path |-> <<"hello">>,       mode |-> Octal(6,4,4)],
      [path |-> <<"bin", "true">>, mode |-> Octal(7,5,5)] }

LayerFiles == {e.path : e \in LayerEntries}

NoBlob == [valid |-> FALSE, files |-> {}]

Answer(net, status, json, layers, blob) ==
    [net |-> net, status |-> status, json |-> json, layers |-> layers,
     blob |-> blob]

NetFail == Answer(FALSE, 0, "", <<>>, NoBlob)

Manifests ==
    {m \in SeqsUpTo(Digests, MaxLayers) :
        \A i, j \in 1..Len(m) : i # j => m[i] # m[j]}

TokenAnswers(up) ==
    {NetFail} \cup
    (IF up THEN {Answer(TRUE, st, js, <<>>, NoBlob) :
                    st \in {200, 401}, js \in {"auth", "error"}}
           ELSE {})

ManifestAnswers(up) ==
    {NetFail} \cup
    (IF up THEN {Answer(TRUE, 200, "manifest", m, NoBlob) : m \in Manifests}
                \cup {Answer(TRUE, 404, "error", <<>>, NoBlob)}
           ELSE {})

BlobAnswers(up) ==
    {NetFail} \cup
    (IF up THEN {Answer(TRUE, 200, "", <<>>, [valid |-> TRUE, files |-> f]) :
                    f \in (SUBSET LayerEntries) \ {{}}}
                \cup {Answer(TRUE, 200, "", <<>>, NoBlob),
                      Answer(TRUE, 404, "", <<>>, NoBlob)}
           ELSE {})

Request(kind, name, tag, digest, answer) ==
    [kind |-> kind, name |-> name, tag |-> tag, digest |-> digest,
     answer |-> answer]

Is2xx(status) == 200 <= status /\ status < 300

(***************************************************************************)
(* pull_image (main.rs 87-143).                                            *)
(***************************************************************************)
\* str::split(':'): the pieces between the colons, at least one piece.
RECURSIVE split(_, _)
split(str, sep) ==
    LET at == {i \in 1..Len(str) : str[i] = sep}
    IN  IF at = {} THEN <<str>>
        ELSE LET i == CHOOSE k \in at : \A l \in at : k <= l
             IN  <<SubSeq(str, 1, i - 1)>>
                     \o split(SubSeq(str, i + 1, Len(str)), sep)

\* response.json::<Auth>() and response.json::<Manifest>(): the body must
\* be JSON with the fields of the struct.  The status is not looked at.
json_Auth(answer)     == answer.json = "auth"
json_Manifest(answer) == answer.json = "manifest"

\* The handle File::create returns: write-only.  After write_all its
\* cursor is at the end of the file.
CreatedHandle(d) == [open |-> TRUE, readable |-> FALSE, atEnd |-> TRUE, data |-> d]

\* One entry of a tar archive unpacked below the target directory: the
\* directories on the way to it are created where they are missing; the
\* file is created, and replaces (unlink, create) the file at its path; it
\* gets the mode of its entry.
ExtractEntry(fsys, root, target, e, d, priv) ==
    LET dirc == target \o Front(e.path)
        dirp == Walk(fsys, root, root, dirc, priv)
        made == IF WalkError(dirp) = "ok" /\ Exists(fsys, dirp)
                THEN Ret("ok", fsys)
                ELSE create_dir_all(fsys, root, dirc, priv)
        p    == Walk(made.fs, root, root, target \o e.path, priv)
    IN  IF made.err # "ok" THEN made
        ELSE IF WalkError(p) # "ok" THEN Ret(WalkError(p), made.fs)
        ELSE IF ~CanWrite(made.fs, Front(p), priv) THEN Ret("EACCES", made.fs)
        ELSE IF IsDir(made.fs, p) THEN Ret("EISDIR", made.fs)
        ELSE Ret("ok", Put(made.fs, p,
                           Node("file", e.mode, Uid(priv), Data("layer", d))))

\* The entries of an archive unpacked one after the other, up to the first
\* that fails.  An archive holds its entries in an order; the outcomes of
\* every order of the set.
RECURSIVE ExtractEntries(_, _, _, _, _, _)
ExtractEntries(fsys, root, target, files, d, priv) ==
    IF files = {} THEN {Ret("ok", fsys)}
    ELSE UNION { LET r == ExtractEntry(fsys, root, target, e, d, priv)
                 IN  IF r.err = "ok"
                     THEN ExtractEntries(r.fs, root, target, files \ {e},
                                         d, priv)
                     ELSE {r} :
                 e \in files }

\* Archive::new(GzDecoder::new(file)).unpack(target_dir): a target that
\* does not exist is created (create_dir_all) first; then the archive is
\* read from the handle, from its cursor on, and its entries are written
\* below the target.  The set of the possible outcomes.
unpack(fsys, root, target, handle, blob, priv) ==
    LET dst  == Walk(fsys, root, root, target, priv)
        made == IF WalkError(dst) = "ok" /\ Exists(fsys, dst)
                THEN Ret("ok", fsys)
                ELSE create_dir_all(fsys, root, target, priv)
    IN  IF made.err # "ok" THEN {made}
        ELSE IF ~handle.readable THEN {Ret("EBADF", made.fs)}
        ELSE IF handle.atEnd THEN {Ret("UnexpectedEof", made.fs)}
        ELSE IF ~blob.valid THEN {Ret("InvalidGzip", made.fs)}
        ELSE ExtractEntries(made.fs, root, target, blob.files, handle.data,
                            priv)

PullFail(why) ==
    /\ pullResult' = Err(why)
    /\ pullPc' = "done"

\* 88-90: image_name.split(':'), image_tag[0], image_tag[1].  Indexing
\* past the end of the Vec panics.
pi_split ==
    /\ pullPc = "split"
    /\ LET image_tag == split(image, ":")
       IN  IF Len(image_tag) < 2
           THEN /\ pullResult' = [kind |-> "panic", code |-> 0, at |-> "split"]
                /\ pullPc' = "done"
                /\ UNCHANGED <<pullName, pullTag>>
           ELSE /\ pullName' = image_tag[1]
                /\ pullTag' = image_tag[2]
                /\ pullPc' = "token"
                /\ UNCHANGED pullResult
    /\ UNCHANGED <<envVars, procVars, fs, access_token, manifest, layerIdx,
                   tmpFile, requests, extracted>>

\* 94-103: GET auth.docker.io/token?..scope=repository:library/{image}:pull
pi_token ==
    /\ pullPc = "token"
    /\ \E a \in TokenAnswers(networkUp) :
         /\ requests' = Append(requests, Request("token", pullName, <<>>, 0, a))
         /\ IF a.net /\ json_Auth(a)
            THEN /\ access_token' = "token"
                 /\ pullPc' = "manifest"
                 /\ UNCHANGED pullResult
            ELSE /\ PullFail("token")
                 /\ UNCHANGED access_token
    /\ UNCHANGED <<envVars, procVars, fs, pullName, pullTag, manifest,
                   layerIdx, tmpFile, extracted>>

\* 105-118: GET registry.hub.docker.com/v2/library/{image}/manifests/{tag}
pi_manifest ==
    /\ pullPc = "manifest"
    /\ \E a \in ManifestAnswers(networkUp) :
         /\ requests' = Append(requests,
                               Request("manifest", pullName, pullTag, 0, a))
         /\ IF a.net /\ json_Manifest(a)
            THEN /\ manifest' = a.layers
                 /\ layerIdx' = 1
                 /\ pullPc' = "layer"
                 /\ UNCHANGED pullResult
            ELSE /\ PullFail("manifest")
                 /\ UNCHANGED <<manifest, layerIdx>>
    /\ UNCHANGED <<envVars, procVars, fs, pullName, pullTag, access_token,
                   tmpFile, extracted>>

\* 120-132: the next layer of the for loop: GET ../blobs/{digest}, bytes().
pi_blob ==
    /\ pullPc = "layer"
    /\ layerIdx <= Len(manifest)
    /\ \E a \in BlobAnswers(networkUp) :
         /\ requests' = Append(requests,
                               Request("blob", pullName, <<>>,
                                       manifest[layerIdx], a))
         /\ IF a.net
            THEN /\ pullPc' = "unpack"
                 /\ UNCHANGED pullResult
            ELSE PullFail("blob")
    /\ UNCHANGED <<envVars, procVars, fs, pullName, pullTag, access_token,
                   manifest, layerIdx, tmpFile, extracted>>

\* 134-139: File::create("tmp.tar.gz").unwrap(), write_all, flush,
\* Archive::new(GzDecoder::new(file)).unpack(target_dir)?   checked says
\* whether the result of unpack is looked at (the ?).
UnpackLayer(checked) ==
    /\ pullPc = "unpack"
    /\ LET digest  == manifest[layerIdx]
           blob    == requests[Len(requests)].answer.blob
           created == File_create(fs, procRoot, cwd, <<"tmp.tar.gz">>, privileged)
           tarball == Walk(fs, procRoot, cwd, <<"tmp.tar.gz">>, privileged)
           written == Put(created.fs, tarball,
                          [created.fs[tarball] EXCEPT !.content = Data("blob", digest)])
           handle  == CreatedHandle(digest)
       IN  IF created.err # "ok"
           THEN /\ pullResult' = [kind |-> "panic", code |-> 0, at |-> "create"]
                /\ pullPc' = "done"
                /\ UNCHANGED <<fs, tmpFile, extracted, layerIdx>>
           ELSE \E r \in unpack(written, procRoot, temp_dir, handle, blob,
                                privileged) :
                /\ fs' = r.fs
                /\ tmpFile' = handle
                /\ IF r.err = "ok" \/ ~checked
                   THEN /\ extracted' = IF r.err = "ok"
                                        THEN Append(extracted, digest)
                                        ELSE extracted
                        /\ layerIdx' = layerIdx + 1
                        /\ pullPc' = "layer"
                        /\ UNCHANGED pullResult
                   ELSE /\ PullFail("unpack")
                        /\ UNCHANGED <<extracted, layerIdx>>
    /\ UNCHANGED <<envVars, procVars, pullName, pullTag, access_token,
                   manifest, requests>>

\* The result of unpack dropped: the loop goes on to the next layer.
pi_unpack_unchecked == UnpackLayer(FALSE)

pi_unpack == UnpackLayer(TRUE)

\* 142: Ok(()) after the last layer.
pi_return ==
    /\ pullPc = "layer"
    /\ layerIdx > Len(manifest)
    /\ pullResult' = Ok(0)
    /\ pullPc' = "done"
    /\ steps' = Append(steps, "image_pulled")
    /\ UNCHANGED <<envVars, fs, pc, procRoot, cwd, temp_dir, future, child,
                   nsIsolated, result, exitCode, pullName, pullTag,
                   access_token, manifest, layerIdx, tmpFile, requests,
                   extracted>>

\* pull_image(image, target_dir).await with an existing target directory.
PullInit ==
    /\ command \in {<<"/", "bin", "/", "true">>}
    /\ image \in ImageRefs
    /\ privileged \in BOOLEAN
    /\ networkUp \in BOOLEAN
    /\ pc = "await"
    /\ fs = Put(HostFs, TempPath, Node("dir", TempDirMode, Uid(privileged), NoData))
    /\ procRoot = <<>>
    /\ cwd = HostCwd
    /\ temp_dir = TempPath
    /\ future = "polled"
    /\ child = NoChild
    /\ nsIsolated = "none"
    /\ result = NoResult
    /\ exitCode = -1
    /\ steps = <<>>
    /\ pullPc = "split"
    /\ pullName = <<>>
    /\ pullTag = <<>>
    /\ access_token = ""
    /\ manifest = <<>>
    /\ layerIdx = 0
    /\ tmpFile = NoHandle
    /\ requests = <<>>
    /\ extracted = <<>>
    /\ pullResult = NoResult

PullNext ==
    \/ pi_split
    \/ pi_token
    \/ pi_manifest
    \/ pi_blob
    \/ pi_unpack
    \/ pi_return

PullSpec == PullInit /\ [][PullNext]_vars

(***************************************************************************)
(* Properties.                                                             *)
(***************************************************************************)
\* A reference of the form name:tag: exactly one colon.
IsNameTag(ref) == Len(split(ref, ":")) = 2

RequestsOf(kind) == {i \in 1..Len(requests) : requests[i].kind = kind}

\* Every request sent so far was answered, with a 2xx status.
AllAnswered2xx ==
    \A i \in 1..Len(requests) :
        requests[i].answer.net /\ Is2xx(requests[i].answer.status)

\* C1: on every exit path of run_child the directory tempdir() created no
\* longer exists on the host once the invocation has ended.
C1_TempDirRemovedAtExit ==
    pc = "exited" => ~Exists(fs, TempPath)

\* C2 as stated: the process's exit code is the child's exit code whenever
\* the child ended with one, and 1 when the child was killed by a signal or
\* could not be spawned.
C2_ExitCodePropagated ==
    pc = "exited" =>
        /\ child.state = "exited" => exitCode = child.code
        /\ child.state = "signaled" => exitCode = 1
        /\ result = Err("spawn") => exitCode = 1

\* C2: the process's exit code is the child's exit code whenever wait()
\* returned the status of a child that ended with one, and 1 when the child
\* was killed by a signal, when the command could not be spawned, or when
\* wait() failed.
C2_ExitCodeOfWaitedChild ==
    pc = "exited" =>
        /\ (child.state = "exited" /\ result # Err("wait")) =>
               /\ result = Ok(child.code)
               /\ exitCode = child.code
        /\ child.state = "signaled" => exitCode = 1
        /\ result = Err("spawn") => exitCode = 1
        /\ result = Err("wait") => exitCode = 1

C2_Witness ==
    /\ pc = "exited"
    /\ child.state = "exited"
    /\ child.code = MaxExitCode
    /\ result = Ok(MaxExitCode)
    /\ exitCode = MaxExitCode

\* C3: with a name:tag image and a registry that answers every request
\* successfully, when the root is switched the token has been fetched, the
\* manifest retrieved and every layer of the manifest extracted.
C3_ImagePulledBeforeChroot ==
    (procRoot # <<>> /\ IsNameTag(image) /\ AllAnswered2xx) =>
        /\ RequestsOf("token") # {}
        /\ access_token # ""
        /\ RequestsOf("manifest") # {}
        /\ extracted = manifest

\* C6: copy_command writes the staged copy strictly inside the sandbox
\* root or rejects the path; it never writes outside the root.  (Nothing
\* but the new root, and what lies below it, differs from the host as it
\* was.)
C6_NothingWrittenOutsideRoot ==
    \A p \in DOMAIN fs :
        (p \notin DOMAIN HostFs \/ fs[p] # HostFs[p]) => IsPrefix(TempPath, p)

\* C7: a reference name:tag is used as exactly (name, tag), and a reference
\* that does not hold exactly one colon is rejected before any request.
C7_ExactlyOneColon ==
    /\ ~IsNameTag(image) => requests = <<>>
    /\ (IsNameTag(image) /\ pullPc # "split") =>
           /\ pullName \o <<":">> \o pullTag = image
           /\ \A i \in 1..Len(pullName) : pullName[i] # ":"
           /\ \A i \in 1..Len(pullTag) : pullTag[i] # ":"

\* C8: when the token endpoint answers with a non-2xx status, the pull
\* fails at the token step and no manifest or blob request is issued.
C8_Non2xxTokenStopsPull ==
    \A i \in RequestsOf("token") :
        (requests[i].answer.net /\ ~Is2xx(requests[i].answer.status)) =>
            /\ pullResult = Err("token")
            /\ RequestsOf("manifest") = {}
            /\ RequestsOf("blob") = {}

\* The blob request whose archive the loop has tried to unpack: every blob
\* request but one still waiting for pi_unpack.
Unpacked(i) ==
    /\ i \in RequestsOf("blob")
    /\ requests[i].answer.net
    /\ ~(pullPc = "unpack" /\ i = Len(requests))

\* C9: when the decompression of layer i's blob fails (a corrupt gzip
\* stream), pull_image returns an error and no blob request is issued for a
\* later layer.
C9_CorruptLayerStopsPull ==
    \A i \in 1..Len(requests) :
        (Unpacked(i) /\ ~requests[i].answer.blob.valid) =>
            /\ pullResult = Err("unpack")
            /\ pullPc = "done"
            /\ i = Len(requests)
            /\ Cardinality(RequestsOf("blob")) <= Len(manifest)

C9_Witness ==
    /\ Len(manifest) = MaxLayers
    /\ Cardinality(RequestsOf("blob")) = 1
    /\ Unpacked(Len(requests))
    /\ ~requests[Len(requests)].answer.blob.valid
    /\ pullResult = Err("unpack")

\* The place of each step in the order of an invocation.
Rank(step) ==
    CASE step = "root_created"      -> 1
      [] step = "command_staged"    -> 2
      [] step = "device_created"    -> 3
      [] step = "image_pulled"      -> 4
      [] step = "root_entered"      -> 5
      [] step = "cwd_set"           -> 6
      [] step = "unshare_attempted" -> 7
      [] step = "child_spawned"     -> 8
      [] step = "child_exited"      -> 9

\* C10: the steps of an invocation occur only in the order root created,
\* command staged, device file created, image pulled, root entered (chroot,
\* then the working directory), namespace isolation attempted, child
\* spawned, child exited, each at most once; the child is never spawned
\* before the root is entered, and the working directory changes only at
\* the root entry.
C10_StepOrder ==
    /\ \A i, j \in 1..Len(steps) : i < j => Rank(steps[i]) < Rank(steps[j])
    /\ \A i \in 1..Len(steps) :
           IF i = 1 THEN steps[i] = "root_created"
           ELSE \/ Rank(steps[i - 1]) = Rank(steps[i]) - 1
                \/ steps[i - 1] = "device_created" /\ steps[i] = "root_entered"
    /\ child.state # "none" =>
           /\ procRoot = TempPath
           /\ cwd = procRoot
           /\ nsIsolated # "none"
    /\ cwd = (IF \E i \in 1..Len(steps) : steps[i] = "cwd_set"
              THEN procRoot ELSE HostCwd)

C10_Witness ==
    /\ pc = "exited"
    /\ steps = <<"root_created", "command_staged", "device_created",
                 "root_entered", "cwd_set", "unshare_attempted",
                 "child_spawned", "child_exited">>

\* The command names a regular file of the host.
CommandOnHost ==
    IsFile(HostFs, Lookup(HostFs, <<>>, HostCwd, command, privileged))

\* run_child has returned.
Returned == pc \in {"drop", "main", "exited"}

\* The statement of run_child that follows n performed steps.
StatementAfter(n) ==
    CASE n = 0 -> "tempdir"
      [] n = 1 -> "copy_command"
      [] n = 2 -> "create_dev_null"
      [] n = 3 -> "chroot"
      [] n = 4 -> "set_current_dir"
      [] n = 5 -> "unshare"
      [] n = 6 -> "spawn"
      [] n = 7 -> "wait"
      [] OTHER -> "return"

\* C11: when root creation, command staging, device-file creation, chroot,
\* the change of the working directory or the spawn fails, no later step
\* executes and the error reaches the caller; a command that does not exist
\* on the host fails the invocation before chroot and unshare are called.
C11_FailureAborts ==
    /\ result.kind = "err" =>
           /\ Returned
           /\ result.at \in {"tempdir", "copy_command", "create_dev_null",
                             "chroot", "set_current_dir", "spawn", "wait"}
    /\ (Returned /\ StatementAfter(Len(steps)) # "return") =>
           /\ result = Err(StatementAfter(Len(steps)))
           /\ child.state = "none"
           /\ pc = "exited" => exitCode = 1
    /\ ~CommandOnHost =>
           /\ procRoot = <<>>
           /\ nsIsolated = "none"
           /\ Returned => result.kind = "err"

C11_Witness ==
    /\ pc = "exited"
    /\ ~CommandOnHost
    /\ result = Err("copy_command")
    /\ steps = <<"root_created">>
    /\ exitCode = 1

\* C12: once a command given as an absolute path has been staged and the
\* root entered, the path handed to the spawn names, inside the new root,
\* the staged copy of the host's command file.
C12_AbsoluteCommandResolvesToStagedCopy ==
    (/\ IsAbsolute(command)
     /\ \E i \in 1..Len(steps) : steps[i] = "cwd_set") =>
        LET hostFile == Lookup(HostFs, <<>>, HostCwd, command, privileged)
            staged   == spawn_target(fs, procRoot, cwd, command, privileged)
        IN  /\ IsFile(fs, staged)
            /\ StrictlyInside(staged, TempPath)
            /\ fs[staged].content = HostFs[hostFile].content

\* The image argument that asks for no image.
Skip == <<"s", "k", "i", "p">>

\* C13: with the image argument skip no network request is issued at any
\* point of the invocation: the root is built, the command staged and
\* executed, and the child's exit code returned.
C13_SkipNoNetwork ==
    image = Skip =>
        /\ requests = <<>>
        /\ pullResult.kind = "none"
        /\ result.kind = "err" => result.at # "pull_image"
        /\ (pc = "exited" /\ result.kind = "ok") =>
               /\ \E i \in 1..Len(steps) : steps[i] = "command_staged"
               /\ \E i \in 1..Len(steps) : steps[i] = "child_exited"
               /\ exitCode = exit_status_code(child)
        /\ pc = "exited" => result.kind # "none"

C13_Witness ==
    /\ image = Skip
    /\ pc = "exited"
    /\ requests = <<>>
    /\ IsFile(fs, TempPath \o <<"bin", "true">>)
    /\ child.state = "exited"
    /\ child.code = 0
    /\ exitCode = 0

DevNull == TempPath \o <<"dev", "null">>

\* C14: from the successful return of create_dev_null until the root is
\* entered, dev/null inside the sandbox root exists and has no write
\* permission bit for owner, group or others.
C14_DevNullNotWritable ==
    pc \in {"pull_image", "chroot"} =>
        /\ IsFile(fs, DevNull)
        /\ StrictlyInside(DevNull, temp_dir)
        /\ ~OwnerWrite(fs[DevNull].mode)
        /\ ~GroupWrite(fs[DevNull].mode)
        /\ ~OtherWrite(fs[DevNull].mode)

C14_Witness ==
    /\ pc = "chroot"
    /\ future = "dropped"
    /\ IsFile(fs, DevNull)
    /\ fs[DevNull].mode = Octal(5,5,5)

\* C15: a failure of unshare is the only failure of a step that does not
\* abort the invocation: after it the child is still spawned and its exit
\* code returned, and no error reaches the caller.
C15_UnshareFailureIgnored ==
    /\ nsIsolated = "failed" =>
           /\ pc \in {"spawn", "wait", "drop", "main", "exited"}
           /\ steps[Len(steps)] \in {"unshare_attempted", "child_spawned",
                                     "child_exited"}
           /\ result.kind = "err" => result.at \in {"spawn", "wait"}
           /\ (pc = "exited" /\ child.state # "none" /\ result.kind = "ok") =>
                  /\ result = Ok(exit_status_code(child))
                  /\ exitCode = exit_status_code(child)
    /\ result.kind = "err" => result.at # "unshare"
    /\ (Returned /\ StatementAfter(Len(steps)) # "return") =>
           /\ result.kind = "err"
           /\ child.state = "none"

C15_Witness ==
    /\ nsIsolated = "failed"
    /\ pc = "exited"
    /\ child.state = "exited"
    /\ child.code = MaxExitCode
    /\ result = Ok(MaxExitCode)
    /\ exitCode = MaxExitCode

\* The host with the root directory tempdir() has just created.
FreshRoot ==
    Put(HostFs, TempPath, Node("dir", TempDirMode, Uid(privileged), NoData))

\* C16: on a fresh sandbox root, whenever the staging of the command by
\* copy_command succeeds, the create_dev_null that follows succeeds too:
\* staging never leaves the root in a state that makes the creation of the
\* device file, which would succeed on the fresh root, fail.
C16_DevNullAfterStaging ==
    (/\ \E i \in 1..Len(steps) : steps[i] = "command_staged"
     /\ create_dev_null(FreshRoot, <<>>, TempPath, privileged).err = "ok") =>
        result # Err("create_dev_null")

====
